---- MODULE Spec2Model ----
(***************************************************************************)
(* Model of generate_outputs.py: the MVO parser (load_objects_from_mvo),   *)
(* the score builder (create_midi_from_mvo), the scene builder             *)
(* (create_vtk_from_mvo) and main.                                         *)
(*                                                                         *)
(* Text.  A Python str is the sequence of the code points of its           *)
(* characters (ord): "C4" is <<67, 52>>, written str(<<"C", "4">>).        *)
(* strip, in, split and == are computed on that sequence as Python         *)
(* computes them.                                                          *)
(*                                                                         *)
(* Numbers.  float() parses its text as Python does and gives the double   *)
(* nearest to the decimal written, ties to even, with overflow to inf and  *)
(* underflow to zero.  A finite float is kept as its exact value, written  *)
(* in decimal: sign, digits and exponent of ten, without leading or        *)
(* trailing zeros (2.9 is 2.899999999999999911182158029987...).  Two       *)
(* floats are the same float when these are equal; -0.0 keeps its sign,    *)
(* and nan is one value.  A Python int that comes from a float is kept as  *)
(* its sign and its decimal digits, of any length.                         *)
(*                                                                         *)
(* Objects.  Python dicts are heap objects: heap[id] is the content of     *)
(* dict id, and current_object and the elements of objects are ids, so     *)
(* that two references to one dict see each other's writes.                *)
(*                                                                         *)
(* Files.  output_mid is the file output.mid: <<>> while there is no such  *)
(* file, <<content>> once it exists, where content is <<>> for the file    *)
(* that open(..., "wb") has created or truncated and <<doc>> for the file  *)
(* that holds the document the writer wrote.  What the writer and the      *)
(* interactor do inside is the libraries' matter: the writer either writes *)
(* the document or raises, and the interactor returns when its window is   *)
(* closed.                                                                 *)
(***************************************************************************)
EXTENDS Integers, Sequences, FiniteSets, TLC

VARIABLES args, file, pc, err, lineno, heap, current_object, objects,
          obj_i, midi, track_details, current_track, renderer,
          output_mid, rendered

vars == <<args, file, pc, err, lineno, heap, current_object, objects,
          obj_i, midi, track_details, current_track, renderer,
          output_mid, rendered>>

(* ---------------------------------------------------------------- text *)

\* ord(c) of the printable ASCII characters (the grave accent, 96, left out)
ord ==
  (" " :> 32) @@ ("!" :> 33) @@ ("\"" :> 34) @@ ("#" :> 35) @@ ("$" :> 36) @@ ("%" :> 37) @@
  ("&" :> 38) @@ ("'" :> 39) @@ ("(" :> 40) @@ (")" :> 41) @@ ("*" :> 42) @@ ("+" :> 43) @@
  ("," :> 44) @@ ("-" :> 45) @@ ("." :> 46) @@ ("/" :> 47) @@ ("0" :> 48) @@ ("1" :> 49) @@
  ("2" :> 50) @@ ("3" :> 51) @@ ("4" :> 52) @@ ("5" :> 53) @@ ("6" :> 54) @@ ("7" :> 55) @@
  ("8" :> 56) @@ ("9" :> 57) @@ (":" :> 58) @@ (";" :> 59) @@ ("<" :> 60) @@ ("=" :> 61) @@
  (">" :> 62) @@ ("?" :> 63) @@ ("@" :> 64) @@ ("A" :> 65) @@ ("B" :> 66) @@ ("C" :> 67) @@
  ("D" :> 68) @@ ("E" :> 69) @@ ("F" :> 70) @@ ("G" :> 71) @@ ("H" :> 72) @@ ("I" :> 73) @@
  ("J" :> 74) @@ ("K" :> 75) @@ ("L" :> 76) @@ ("M" :> 77) @@ ("N" :> 78) @@ ("O" :> 79) @@
  ("P" :> 80) @@ ("Q" :> 81) @@ ("R" :> 82) @@ ("S" :> 83) @@ ("T" :> 84) @@ ("U" :> 85) @@
  ("V" :> 86) @@ ("W" :> 87) @@ ("X" :> 88) @@ ("Y" :> 89) @@ ("Z" :> 90) @@ ("[" :> 91) @@
  ("\\" :> 92) @@ ("]" :> 93) @@ ("^" :> 94) @@ ("_" :> 95) @@ ("a" :> 97) @@ ("b" :> 98) @@
  ("c" :> 99) @@ ("d" :> 100) @@ ("e" :> 101) @@ ("f" :> 102) @@ ("g" :> 103) @@ ("h" :> 104) @@
  ("i" :> 105) @@ ("j" :> 106) @@ ("k" :> 107) @@ ("l" :> 108) @@ ("m" :> 109) @@ ("n" :> 110) @@
  ("o" :> 111) @@ ("p" :> 112) @@ ("q" :> 113) @@ ("r" :> 114) @@ ("s" :> 115) @@ ("t" :> 116) @@
  ("u" :> 117) @@ ("v" :> 118) @@ ("w" :> 119) @@ ("x" :> 120) @@ ("y" :> 121) @@ ("z" :> 122) @@
  ("{" :> 123) @@ ("|" :> 124) @@ ("}" :> 125) @@ ("~" :> 126)

\* the str of the given characters
str(t) == [i \in 1..Len(t) |-> ord[t[i]]]

\* str.isspace() of one character: the characters str.strip() removes
IsSpace(c) ==
  c \in (9..13) \cup (28..32) \cup {133, 160, 5760} \cup (8192..8202)
        \cup {8232, 8233, 8239, 8287, 12288}

\* s from its first character that is no whitespace on
lstrip(s) ==
  IF \A i \in 1..Len(s) : IsSpace(s[i]) THEN <<>>
  ELSE SubSeq(s, CHOOSE i \in 1..Len(s) :
                   ~IsSpace(s[i]) /\ \A j \in 1..(i - 1) : IsSpace(s[j]), Len(s))

\* s up to its last character that is no whitespace
rstrip(s) ==
  IF \A i \in 1..Len(s) : IsSpace(s[i]) THEN <<>>
  ELSE SubSeq(s, 1, CHOOSE i \in 1..Len(s) :
                      ~IsSpace(s[i]) /\ \A j \in (i + 1)..Len(s) : IsSpace(s[j]))

\* str.strip()
strip(s) == rstrip(lstrip(s))

\* sub in s, for a one-character sub
contains(s, c) == \E i \in 1..Len(s) : s[i] = c

\* the first index at which sep occurs in s, 0 when it does not occur
find(s, sep) ==
  LET hits == {i \in 1..(Len(s) - Len(sep) + 1) :
                 SubSeq(s, i, i + Len(sep) - 1) = sep}
  IN IF hits = {} THEN 0 ELSE CHOOSE i \in hits : \A j \in hits : i <= j

\* str.split(sep)
RECURSIVE split(_, _)
split(s, sep) ==
  LET i == find(s, sep)
  IN IF i = 0 THEN <<s>>
     ELSE <<SubSeq(s, 1, i - 1)>> \o split(SubSeq(s, i + Len(sep), Len(s)), sep)

\* str.split(sep, 1)
split_1(s, sep) ==
  LET i == find(s, sep)
  IN IF i = 0 THEN <<s>>
     ELSE <<SubSeq(s, 1, i - 1), SubSeq(s, i + Len(sep), Len(s))>>

(* ------------------------------------------------------------- numbers *)

None == "None"

\* the zero of every run of ten decimal digits of Unicode
DecimalZeros ==
  { 48, 1632, 1776, 1984, 2406, 2534, 2662, 2790, 2918, 3046,
    3174, 3302, 3430, 3558, 3664, 3792, 3872, 4160, 4240, 6112,
    6160, 6470, 6608, 6784, 6800, 6992, 7088, 7232, 7248, 42528,
    43216, 43264, 43472, 43504, 43600, 44016, 65296, 66720, 68912, 69734,
    69872, 69942, 70096, 70384, 70736, 70864, 71248, 71360, 71472, 71904,
    72016, 72784, 73040, 73120, 92768, 92864, 93008, 120782, 120792, 120802,
    120812, 120822, 123200, 123632, 125264, 130032 }

IsDecimal(c) == \E z \in DecimalZeros : z <= c /\ c <= z + 9

\* float() first rewrites the characters from 127 on: whitespace to a space, a
\* decimal digit to its ASCII digit, any other to "?"
to_ascii(c) ==
  IF c < 127 THEN c
  ELSE IF IsSpace(c) THEN ord[" "]
  ELSE IF IsDecimal(c)
  THEN ord["0"] + c - (CHOOSE z \in DecimalZeros : z <= c /\ c <= z + 9)
  ELSE ord["?"]

\* C's isspace, the whitespace float() then removes at both ends
isspace(c) == c \in (9..13) \cup {32}

float_strip(s) ==
  IF \A i \in 1..Len(s) : isspace(s[i]) THEN <<>>
  ELSE SubSeq(s,
         CHOOSE i \in 1..Len(s) : ~isspace(s[i]) /\ \A j \in 1..(i - 1) : isspace(s[j]),
         CHOOSE i \in 1..Len(s) : ~isspace(s[i]) /\ \A j \in (i + 1)..Len(s) : isspace(s[j]))

IsDigit(c) == ord["0"] <= c /\ c <= ord["9"]

\* ASCII lower case, for inf, infinity and nan
lower(c) == IF ord["A"] <= c /\ c <= ord["Z"] THEN c + 32 ELSE c

\* digits, with single underscores allowed between two digits
digit_part(s) ==
  /\ s # <<>>
  /\ IsDigit(s[1]) /\ IsDigit(s[Len(s)])
  /\ \A i \in 1..Len(s) : IsDigit(s[i]) \/ s[i] = ord["_"]
  /\ \A i \in 1..(Len(s) - 1) : ~(s[i] = ord["_"] /\ s[i + 1] = ord["_"])

\* the digits of a digit part, its underscores dropped
digits_of(s) ==
  LET ds == SelectSeq(s, IsDigit)
  IN [i \in 1..Len(ds) |-> ds[i] - ord["0"]]

no_leading_zeros(d) ==
  IF \A i \in 1..Len(d) : d[i] = 0 THEN <<>>
  ELSE SubSeq(d, CHOOSE i \in 1..Len(d) : d[i] # 0 /\ \A j \in 1..(i - 1) : d[j] = 0,
              Len(d))

no_trailing_zeros(d) ==
  IF \A i \in 1..Len(d) : d[i] = 0 THEN <<>>
  ELSE SubSeq(d, 1,
              CHOOSE i \in 1..Len(d) : d[i] # 0 /\ \A j \in (i + 1)..Len(d) : d[j] = 0)

\* n zeros
zeros(n) == IF n > 0 THEN [i \in 1..n |-> 0] ELSE <<>>

\* the floats: digits x 10^exp, signed (no digit: zero), or an infinity, or nan
Finite(neg, digits, exp) == [cls |-> "finite", neg |-> neg, digits |-> digits, exp |-> exp]
Zero == Finite(FALSE, <<>>, 0)
Inf(neg) == [cls |-> "inf", neg |-> neg, digits |-> <<>>, exp |-> 0]
NaN == [cls |-> "nan", neg |-> FALSE, digits |-> <<>>, exp |-> 0]

\* Whole numbers of any size, for the arithmetic of the conversion: the limbs
\* of the number in base 10000, the least significant first, the last not 0.
Base == 10000

\* the limbs of the number written by the decimal digits d, d[1] not 0
limbs_of(d) ==
  LET n == Len(d)
  IN [j \in 1..((n + 3) \div 4) |->
        LET lo == n - 4 * (j - 1)
        IN d[lo] + (IF lo > 1 THEN 10 * d[lo - 1] ELSE 0)
                 + (IF lo > 2 THEN 100 * d[lo - 2] ELSE 0)
                 + (IF lo > 3 THEN 1000 * d[lo - 3] ELSE 0)]

\* the decimal digits of the number of limbs a
digits_from(a) ==
  no_leading_zeros(
    [p \in 1..(4 * Len(a)) |->
       LET q == 4 * Len(a) - p
       IN (a[q \div 4 + 1] \div <<1, 10, 100, 1000>>[(q % 4) + 1]) % 10])

\* limbs lo..hi of a * k + c, and the carry out of them
RECURSIVE times_limbs(_, _, _, _, _)
times_limbs(a, k, c, lo, hi) ==
  IF lo > hi THEN [l |-> <<>>, c |-> c]
  ELSE IF lo = hi
  THEN [l |-> <<(a[lo] * k + c) % Base>>, c |-> (a[lo] * k + c) \div Base]
  ELSE LET mid == (lo + hi) \div 2
           low == times_limbs(a, k, c, lo, mid)
           high == times_limbs(a, k, low.c, mid + 1, hi)
       IN [l |-> low.l \o high.l, c |-> high.c]

\* a * k + c, for k and c below 2^17
times_plus(a, k, c) ==
  LET p == times_limbs(a, k, c, 1, Len(a))
  IN p.l \o (IF p.c = 0 THEN <<>>
             ELSE IF p.c < Base THEN <<p.c>>
             ELSE <<p.c % Base, p.c \div Base>>)

double(a) == times_plus(a, 2, 0)

\* a * 2^n
RECURSIVE times_2_to(_, _)
times_2_to(a, n) ==
  IF a = <<>> THEN <<>>
  ELSE IF n <= 16
  THEN times_plus(a, <<1, 2, 4, 8, 16, 32, 64, 128, 256, 512, 1024, 2048, 4096,
                       8192, 16384, 32768, 65536>>[n + 1], 0)
  ELSE times_2_to(times_2_to(a, n \div 2), n - n \div 2)

\* a * 5^n
RECURSIVE times_5_to(_, _)
times_5_to(a, n) ==
  IF a = <<>> THEN <<>>
  ELSE IF n <= 7
  THEN times_plus(a, <<1, 5, 25, 125, 625, 3125, 15625, 78125>>[n + 1], 0)
  ELSE times_5_to(times_5_to(a, n \div 2), n - n \div 2)

\* a < b
big_less(a, b) ==
  IF Len(a) # Len(b) THEN Len(a) < Len(b)
  ELSE IF a = b THEN FALSE
  ELSE LET i == CHOOSE i \in 1..Len(a) :
                  a[i] # b[i] /\ \A j \in (i + 1)..Len(a) : a[j] = b[j]
       IN a[i] < b[i]

\* limbs lo..hi of a - b - borrow, and the borrow out of them
RECURSIVE minus_limbs(_, _, _, _, _)
minus_limbs(a, b, borrow, lo, hi) ==
  IF lo > hi THEN [l |-> <<>>, c |-> borrow]
  ELSE IF lo = hi
  THEN LET v == a[lo] - (IF lo <= Len(b) THEN b[lo] ELSE 0) - borrow
       IN [l |-> <<IF v < 0 THEN v + Base ELSE v>>, c |-> IF v < 0 THEN 1 ELSE 0]
  ELSE LET mid == (lo + hi) \div 2
           low == minus_limbs(a, b, borrow, lo, mid)
           high == minus_limbs(a, b, low.c, mid + 1, hi)
       IN [l |-> low.l \o high.l, c |-> high.c]

\* a - b, for a >= b
big_minus(a, b) == no_trailing_zeros(minus_limbs(a, b, 0, 1, Len(a)).l)

\* the least binary exponent of a normal double, 2^-1022
MinExponent == -1022

\* n / t is the number / 2^s; st is scaled when t <= n < 2t, or n < t at the
\* least exponent
scaled(st) ==
  IF big_less(st.n, st.t) THEN st.s = MinExponent
  ELSE big_less(st.n, double(st.t))

\* one step of the scaling, by 2 or by 2^16
scale_step(st) ==
  IF ~big_less(st.n, st.t)
  THEN IF ~big_less(st.n, times_plus(st.t, 131072, 0))
       THEN [st EXCEPT !.t = times_plus(st.t, 65536, 0), !.s = @ + 16]
       ELSE [st EXCEPT !.t = double(st.t), !.s = @ + 1]
  ELSE IF st.s - 16 >= MinExponent /\ big_less(times_plus(st.n, 65536, 0), st.t)
       THEN [st EXCEPT !.n = times_plus(st.n, 65536, 0), !.s = @ - 16]
       ELSE [st EXCEPT !.n = double(st.n), !.s = @ - 1]

\* at most i steps of the scaling
RECURSIVE scale(_, _)
scale(st, i) ==
  IF scaled(st) THEN st
  ELSE IF i = 1 THEN scale_step(st)
  ELSE scale(scale(st, i \div 2), i - i \div 2)

\* one more bit of the quotient q of the number by t: st.r, below 2t, is twice
\* what is left of the number
divide_step(st, t) ==
  IF big_less(st.r, t)
  THEN [q |-> double(st.q), r |-> double(st.r), bits |-> st.bits + 1]
  ELSE [q |-> times_plus(st.q, 2, 1), r |-> double(big_minus(st.r, t)),
        bits |-> st.bits + 1]

\* at most i more bits of the quotient, up to the 53 bits of a double
RECURSIVE divide(_, _, _)
divide(st, t, i) ==
  IF st.bits = 53 THEN st
  ELSE IF i = 1 THEN divide_step(st, t)
  ELSE divide(divide(st, t, i \div 2), t, i - i \div 2)

\* 2^53
TwoTo53 == limbs_of(<<9, 0, 0, 7, 1, 9, 9, 2, 5, 4, 7, 4, 0, 9, 9, 2>>)

\* the float of the given sign whose value is written by the digits all, the
\* last of them at 10^exp
trimmed(neg, all, exp) ==
  Finite(neg, no_trailing_zeros(all),
         IF no_trailing_zeros(all) = <<>> THEN 0
         ELSE exp + Len(all) - Len(no_trailing_zeros(all)))

\* the float m x 2^e, written in decimal
exact_decimal(neg, m, e) ==
  IF e >= 0 THEN trimmed(neg, digits_from(times_2_to(m, e)), 0)
  ELSE trimmed(neg, digits_from(times_5_to(m, -e)), e)

\* the double of significand m, below or at 2^53, and exponent e: past the
\* greatest double it is an infinity
double_of(neg, m, e) ==
  IF e > 971 \/ (e = 971 /\ m = TwoTo53) THEN Inf(neg)
  ELSE exact_decimal(neg, m, e)

\* the quotient d.q of the number by t, with twice the rest d.r, is rounded to
\* the nearest whole number, a tie to the even one
round_to_even(neg, t, e, d) ==
  IF big_less(t, d.r) \/ (d.r = t /\ d.q # <<>> /\ d.q[1] % 2 = 1)
  THEN double_of(neg, times_plus(d.q, 1, 1), e)
  ELSE double_of(neg, d.q, e)

\* the double nearest to the scaled number sc.n / sc.t x 2^sc.s
binary_float(neg, sc) ==
  round_to_even(neg, sc.t, sc.s - 52,
                divide([q |-> <<>>, r |-> sc.n, bits |-> 0], sc.t, 53))

\* the double nearest to digits x 10^exp, ties to even; digits holds no leading
\* and no trailing zero
nearest_float(neg, digits, exp) ==
  IF digits = <<>> THEN Finite(neg, <<>>, 0)
  ELSE IF Len(digits) + exp - 1 > 308 THEN Inf(neg)
  ELSE IF Len(digits) + exp - 1 < -324 THEN Finite(neg, <<>>, 0)
  ELSE binary_float(neg, scale([n |-> limbs_of(digits \o zeros(exp)),
                                t |-> limbs_of(<<1>> \o zeros(-exp)),
                                s |-> 0], 128))

\* the value of a digit string of at most 9 digits
RECURSIVE value_of(_)
value_of(d) == IF d = <<>> THEN 0 ELSE value_of(SubSeq(d, 1, Len(d) - 1)) * 10 + d[Len(d)]

\* the greatest exponent float() reads: it stands for every exponent written
\* with more than 9 digits, leading zeros apart
MAX_ABS_EXP == 1100000000

\* the greatest number of digits float() reads
MAX_DIGITS == 1000000000

\* the value of an exponent's digits
exponent_of(d) ==
  IF Len(no_leading_zeros(d)) > 9 THEN MAX_ABS_EXP ELSE value_of(no_leading_zeros(d))

\* the place of the first character of s that is one of cs, Len(s) + 1 when
\* there is none
first_of(s, cs) ==
  IF \A i \in 1..Len(s) : s[i] \notin cs THEN Len(s) + 1
  ELSE CHOOSE i \in 1..Len(s) : s[i] \in cs /\ \A j \in 1..(i - 1) : s[j] \notin cs

\* the text without its sign, when it has one
unsigned(t) == IF t # <<>> /\ t[1] \in {ord["+"], ord["-"]} THEN Tail(t) ELSE t

\* the value written by the digits all, the last of them at 10^exp
decimal_value(neg, all, exp) ==
  nearest_float(neg, no_trailing_zeros(all),
                exp + Len(all) - Len(no_trailing_zeros(all)))

\* the decimal of digits all (its leading zeros dropped), fraclen of them after
\* the point, and exponent e: no number when it has more than MAX_DIGITS digits,
\* or more than MAX_DIGITS digits after the point
sized_decimal(neg, all, fraclen, e) ==
  IF Len(all) > MAX_DIGITS \/ fraclen > MAX_DIGITS THEN [ok |-> FALSE, f |-> Zero]
  ELSE [ok |-> TRUE, f |-> decimal_value(neg, all, e - fraclen)]

\* the parts of a decimal: digits before the point, digits after it, and the
\* text after the e when there is an e
decimal_parts(neg, intp, fracp, has_e, etext) ==
  IF /\ intp = <<>> \/ digit_part(intp)
     /\ fracp = <<>> \/ digit_part(fracp)
     /\ intp # <<>> \/ fracp # <<>>
     /\ has_e => digit_part(unsigned(etext))
  THEN sized_decimal(neg, no_leading_zeros(digits_of(intp) \o digits_of(fracp)),
                     Len(digits_of(fracp)),
                     IF ~has_e THEN 0
                     ELSE IF etext[1] = ord["-"] THEN -exponent_of(digits_of(unsigned(etext)))
                     ELSE exponent_of(digits_of(unsigned(etext))))
  ELSE [ok |-> FALSE, f |-> Zero]

\* the mantissa is split at its point
mantissa(neg, mant, has_e, etext) ==
  decimal_parts(neg, SubSeq(mant, 1, first_of(mant, {ord["."]}) - 1),
                SubSeq(mant, first_of(mant, {ord["."]}) + 1, Len(mant)),
                has_e, etext)

\* float() of a text that is no inf and no nan:
\* digits [. digits] [e [sign] digits], split at its e
decimal(neg, body) ==
  mantissa(neg, SubSeq(body, 1, first_of(body, {ord["e"], ord["E"]}) - 1),
           first_of(body, {ord["e"], ord["E"]}) <= Len(body),
           SubSeq(body, first_of(body, {ord["e"], ord["E"]}) + 1, Len(body)))

\* the text in lower case
lowered(t) == [i \in 1..Len(t) |-> lower(t[i])]

\* float() of a text without its sign
unsigned_float(neg, body) ==
  IF lowered(body) \in {str(<<"i", "n", "f">>), str(<<"i", "n", "f", "i", "n", "i", "t", "y">>)}
  THEN [ok |-> TRUE, f |-> Inf(neg)]
  ELSE IF lowered(body) = str(<<"n", "a", "n">>) THEN [ok |-> TRUE, f |-> NaN]
  ELSE decimal(neg, body)

\* float() of a text without the whitespace around it
stripped_float(t) == unsigned_float(t # <<>> /\ t[1] = ord["-"], unsigned(t))

\* float(text): ok = FALSE stands for ValueError
float(s) == stripped_float(float_strip([i \in 1..Len(s) |-> to_ascii(s[i])]))

\* the Python int of the given sign and digits
PyInt(neg, digits) ==
  LET d == no_leading_zeros(digits)
  IN [neg |-> neg /\ d # <<>>, digits |-> d]

\* the digits of x before its point
whole_digits(x) ==
  IF x.exp >= 0 THEN x.digits \o zeros(x.exp)
  ELSE SubSeq(x.digits, 1, Len(x.digits) + x.exp)

\* the digit string d plus one
RECURSIVE plus_one(_)
plus_one(d) ==
  IF d = <<>> THEN <<1>>
  ELSE IF d[Len(d)] < 9 THEN [d EXCEPT ![Len(d)] = @ + 1]
  ELSE plus_one(SubSeq(d, 1, Len(d) - 1)) \o <<0>>

\* a plausible slip: rounding to the nearest integer
int_rounding(x) ==
  IF x.cls = "inf" THEN [err |-> "OverflowError", n |-> PyInt(FALSE, <<>>)]
  ELSE IF x.cls = "nan" THEN [err |-> "ValueError", n |-> PyInt(FALSE, <<>>)]
  ELSE LET next == Len(x.digits) + x.exp + 1
           up == x.exp < 0 /\ next >= 1 /\ x.digits[next] >= 5
       IN [err |-> None,
           n |-> PyInt(x.neg, IF up THEN plus_one(whole_digits(x)) ELSE whole_digits(x))]

\* int(x) of a float x: truncation toward zero; OverflowError on an infinity and
\* ValueError on nan
int(x) ==
  IF x.cls = "inf" THEN [err |-> "OverflowError", n |-> PyInt(FALSE, <<>>)]
  ELSE IF x.cls = "nan" THEN [err |-> "ValueError", n |-> PyInt(FALSE, <<>>)]
  ELSE [err |-> None, n |-> PyInt(x.neg, whole_digits(x))]

(* -------------------------------------------------------------- values *)

Str(s) == [kind |-> "str", s |-> s, f |-> Zero, t |-> <<>>]
Flt(x) == [kind |-> "float", s |-> <<>>, f |-> x, t |-> <<>>]
Tup(t) == [kind |-> "tuple", s |-> <<>>, f |-> Zero, t |-> t]

EmptyDict == [k \in {} |-> Str(<<>>)]

DictSet(d, key, val) ==
  [k \in (DOMAIN d) \cup {key} |-> IF k = key THEN val ELSE d[k]]

BEGIN_OBJECT == str(<<"b", "e", "g", "i", "n", "_", "o", "b", "j", "e", "c", "t">>)
END_OBJECT == str(<<"e", "n", "d", "_", "o", "b", "j", "e", "c", "t">>)
INSTRUMENT_SHAPE == str(<<"i", "n", "s", "t", "r", "u", "m", "e", "n", "t", "_", "s", "h", "a", "p", "e">>)
NOTE_COLOR == str(<<"n", "o", "t", "e", "_", "c", "o", "l", "o", "r">>)
SIZE_DURATION == str(<<"s", "i", "z", "e", "_", "d", "u", "r", "a", "t", "i", "o", "n">>)
POSITION == str(<<"p", "o", "s", "i", "t", "i", "o", "n">>)

note_mappings ==
  (str(<<"C", "4">>) :> 60) @@ (str(<<"D", "4">>) :> 62) @@ (str(<<"E", "4">>) :> 64) @@ (str(<<"F", "4">>) :> 65) @@
  (str(<<"G", "4">>) :> 67) @@ (str(<<"A", "4">>) :> 69) @@ (str(<<"B", "4">>) :> 71) @@
  (str(<<"C", "5">>) :> 72) @@ (str(<<"D", "5">>) :> 74) @@ (str(<<"E", "5">>) :> 76) @@ (str(<<"F", "5">>) :> 77)

\* note_mappings.get(note, 60)
note_to_midi(note) ==
  IF note \in DOMAIN note_mappings THEN note_mappings[note] ELSE 60

(* -------------------------------------------------------------- parser *)

\* the parser's state on entry to the loop (lines 15 and 17)
load_start ==
  [heap |-> <<EmptyDict>>, current_object |-> 1, objects |-> <<>>, err |-> None]

\* map(float, parts)
RECURSIVE map_float(_)
map_float(parts) ==
  IF parts = <<>> THEN <<>>
  ELSE <<float(Head(parts))>> \o map_float(Tail(parts))

\* tuple(xs): ok = FALSE stands for the ValueError of a part that is no number
tuple(xs) ==
  IF \A i \in 1..Len(xs) : xs[i].ok
  THEN [ok |-> TRUE, t |-> [i \in 1..Len(xs) |-> xs[i].f]]
  ELSE [ok |-> FALSE, t |-> <<>>]

\* tuple(map(float, value.split(', ')))
position_floats(value) == tuple(map_float(split(value, str(<<",", " ">>))))

\* current_object[key] = val
store(st, key, val) ==
  [st EXCEPT !.heap[st.current_object] = DictSet(@, key, val)]

\* a plausible slip: begin_object keeps the dict it has
begin_object_keeps(st) == st

\* line 21: current_object = {}
begin_object(st) ==
  [st EXCEPT !.heap = Append(@, EmptyDict), !.current_object = Len(st.heap) + 1]

\* lines 23-24: the dict itself is appended, and current_object keeps naming it
end_object(st) ==
  IF DOMAIN st.heap[st.current_object] # {}
  THEN [st EXCEPT !.objects = Append(@, st.current_object)]
  ELSE st

\* line 28: current_object[key] = tuple(...), or the ValueError of float()
store_position(st, key, p) ==
  IF p.ok THEN store(st, key, Tup(p.t)) ELSE [st EXCEPT !.err = "ValueError"]

\* line 30: current_object[key] = float(value), or the ValueError of float()
store_size_duration(st, key, x) ==
  IF x.ok THEN store(st, key, Flt(x.f)) ELSE [st EXCEPT !.err = "ValueError"]

\* lines 27-32
store_field(st, key, value) ==
  IF key = POSITION THEN store_position(st, key, position_floats(value))
  ELSE IF key = SIZE_DURATION THEN store_size_duration(st, key, float(value))
  ELSE store(st, key, Str(value))

\* lines 26-32: key, value = line.split(': ', 1) is a ValueError unless the
\* split gives two parts
field_line(st, line) ==
  LET parts == split_1(line, str(<<":", " ">>))
  IN IF Len(parts) # 2 THEN [st EXCEPT !.err = "ValueError"]
     ELSE store_field(st, parts[1], parts[2])

\* the body of the loop, lines 19-32, on one line of the file
load_line(st, raw) ==
  LET line == strip(raw)
  IN IF line = BEGIN_OBJECT THEN begin_object(st)
     ELSE IF line = END_OBJECT THEN end_object(st)
     ELSE IF line # <<>> /\ contains(line, ord[":"]) THEN field_line(st, line)
     ELSE st

\* the loop from line i of f on, stopping at the first exception
RECURSIVE load_from(_, _, _)
load_from(st, f, i) ==
  IF i > Len(f) \/ st.err # None THEN st
  ELSE load_from(load_line(st, f[i]), f, i + 1)

\* load_objects_from_mvo on a file of lines f: the final parser state
load_objects_from_mvo(f) == load_from(load_start, f, 1)

\* the list a parser state returns: the dicts its ids name
records_of(st) == [i \in 1..Len(st.objects) |-> st.heap[st.objects[i]]]

(* ------------------------------------------------------- score builder *)

\* MIDIFile(numTracks), as the calls made on it: the document handed to the writer
MIDIFile(numTracks) ==
  [numTracks |-> numTracks, trackNames |-> <<>>, tempos |-> <<>>,
   programs |-> <<>>, notes |-> <<>>]

\* the builder's state on entry to the loop (lines 37-42)
midi_start(objs) ==
  [midi |-> MIDIFile(Len(objs)), track_details |-> EmptyDict,
   current_track |-> 0, err |-> None]

\* a plausible slip: every record opens a track of its own
new_track_always(m, instrument) ==
  [m EXCEPT !.track_details = DictSet(@, instrument, m.current_track),
            !.midi.trackNames =
               Append(@, [track |-> m.current_track, time |-> 0, name |-> instrument]),
            !.midi.tempos =
               Append(@, [track |-> m.current_track, time |-> 0, tempo |-> 120]),
            !.current_track = @ + 1]

\* lines 45-49
new_track(m, instrument) ==
  IF instrument \in DOMAIN m.track_details THEN m
  ELSE [m EXCEPT !.track_details = DictSet(@, instrument, m.current_track),
                 !.midi.trackNames =
                    Append(@, [track |-> m.current_track, time |-> 0, name |-> instrument]),
                 !.midi.tempos =
                    Append(@, [track |-> m.current_track, time |-> 0, tempo |-> 120]),
                 !.current_track = @ + 1]

\* lines 51-58, once the instrument has its track
add_note(m, instrument, obj) ==
  IF NOTE_COLOR \notin DOMAIN obj THEN [m EXCEPT !.err = "KeyError"]
  ELSE IF SIZE_DURATION \notin DOMAIN obj THEN [m EXCEPT !.err = "KeyError"]
  ELSE IF int(obj[SIZE_DURATION].f).err # None
  THEN [m EXCEPT !.err = int(obj[SIZE_DURATION].f).err]
  ELSE LET track == m.track_details[instrument]
           note == note_to_midi(split(obj[NOTE_COLOR].s, str(<<"_">>))[1])
           duration == int(obj[SIZE_DURATION].f).n
       IN [m EXCEPT
             !.midi.programs =
                Append(@, [track |-> track, channel |-> 0, time |-> 0, program |-> 1]),
             !.midi.notes =
                Append(@, [track |-> track, channel |-> 0, pitch |-> note,
                           time |-> 0, duration |-> duration, volume |-> 100])]

\* a plausible slip: a record that cannot be mapped is skipped, not raised
midi_object_skips(m, obj) ==
  IF INSTRUMENT_SHAPE \notin DOMAIN obj THEN m
  ELSE LET instrument == split(obj[INSTRUMENT_SHAPE].s, str(<<"_">>))[1]
           r == add_note(new_track(m, instrument), instrument, obj)
       IN [r EXCEPT !.err = None]

\* the body of the loop, lines 44-58, on one record
midi_object(m, obj) ==
  IF INSTRUMENT_SHAPE \notin DOMAIN obj THEN [m EXCEPT !.err = "KeyError"]
  ELSE LET instrument == split(obj[INSTRUMENT_SHAPE].s, str(<<"_">>))[1]
       IN add_note(new_track(m, instrument), instrument, obj)

(* ------------------------------------------------------- scene builder *)

\* line 78: size = obj["size_duration"]
solid_size(obj) == obj[SIZE_DURATION].f

\* lines 91-100, for a source of the given kind
add_actor(r, kind, size, color, obj) ==
  IF POSITION \notin DOMAIN obj THEN [r EXCEPT !.err = "KeyError"]
  ELSE IF Len(obj[POSITION].t) # 3 THEN [r EXCEPT !.err = "TypeError"]
  ELSE [r EXCEPT !.actors =
          Append(@, [shape |-> kind, size |-> size, color |-> color,
                     position |-> obj[POSITION].t])]

\* the body of the loop, lines 76-100, on one record
vtk_object(r, obj) ==
  IF INSTRUMENT_SHAPE \notin DOMAIN obj THEN [r EXCEPT !.err = "KeyError"]
  ELSE IF Len(split(obj[INSTRUMENT_SHAPE].s, str(<<"_">>))) < 2
  THEN [r EXCEPT !.err = "IndexError"]
  ELSE IF NOTE_COLOR \notin DOMAIN obj THEN [r EXCEPT !.err = "KeyError"]
  ELSE IF Len(split(obj[NOTE_COLOR].s, str(<<"_">>))) < 2
  THEN [r EXCEPT !.err = "IndexError"]
  ELSE IF SIZE_DURATION \notin DOMAIN obj THEN [r EXCEPT !.err = "KeyError"]
  ELSE LET shape == split(obj[INSTRUMENT_SHAPE].s, str(<<"_">>))[2]
           color == split(obj[NOTE_COLOR].s, str(<<"_">>))[2]
           size == solid_size(obj)
       IN IF shape = str(<<"s", "p", "h", "e", "r", "e">>) THEN add_actor(r, "sphere", size, color, obj)
          ELSE IF shape = str(<<"c", "u", "b", "e">>) THEN add_actor(r, "cube", size, color, obj)
          ELSE r

(* -------------------------------------------------------------- inputs *)

MaxLines == 4
MaxBlockLines == 6
MaxObjects == 2

Field(key, value) == key \o str(<<":", " ">>) \o value

SeqsUpTo(S, n) == UNION {[1..k -> S] : k \in 0..n}

\* the lines of the parser's inputs: markers, a blank line, a line with no colon,
\* field lines, and a line whose colon is not followed by a space
ParserLines ==
  { BEGIN_OBJECT, END_OBJECT, <<>>, str(<<"j", "u", "n", "k">>),
    Field(str(<<"a">>), str(<<"x">>)),
    Field(SIZE_DURATION, str(<<"2", ".", "9">>)),
    Field(SIZE_DURATION, str(<<"a", "b", "c">>)),
    str(<<"k", "e", "y", ":", "v", "a", "l", "u", "e">>) }

ParserFiles == SeqsUpTo(ParserLines, MaxLines)

\* the field lines of well-formed blocks
BlockFieldLines ==
  { Field(INSTRUMENT_SHAPE, str(<<"p", "i", "a", "n", "o", "_", "s", "p", "h", "e", "r", "e">>)),
    Field(SIZE_DURATION, str(<<"2", ".", "9">>)),
    Field(POSITION, str(<<"0", ",", " ", "1", ".", "5", ",", " ", "2", ".", "9">>)) }

\* every file of at most n lines made of begin_object ... end_object blocks, each
\* holding at least one field line
RECURSIVE BlockFiles(_)
BlockFiles(n) ==
  {<<>>} \cup
  UNION { { <<BEGIN_OBJECT>> \o body \o <<END_OBJECT>> \o rest :
              body \in [1..k -> BlockFieldLines], rest \in BlockFiles(n - k - 2) } :
          k \in 1..(n - 2) }

\* one block of a score/scene input; an absent field is the empty list of lines
Block(shape, color, size, position) ==
  <<BEGIN_OBJECT>> \o shape \o color \o size \o position \o <<END_OBJECT>>

Shape(instrument_shape) == <<Field(INSTRUMENT_SHAPE, instrument_shape)>>
Color(note_color) == <<Field(NOTE_COLOR, note_color)>>
Size(size_duration) == <<Field(SIZE_DURATION, size_duration)>>
At(x, y, z) == <<Field(POSITION, x \o str(<<",", " ">>) \o y \o str(<<",", " ">>) \o z)>>

C4_red == Color(str(<<"C", "4", "_", "r", "e", "d">>))
G4_blue == Color(str(<<"G", "4", "_", "b", "l", "u", "e">>))

BuildBlocks ==
  { Block(Shape(str(<<"p", "i", "a", "n", "o", "_", "s", "p", "h", "e", "r", "e">>)), C4_red, Size(str(<<"2", ".", "9">>)), At(str(<<"0">>), str(<<"0">>), str(<<"0">>))),
    Block(Shape(str(<<"p", "i", "a", "n", "o", "_", "c", "u", "b", "e">>)), G4_blue, Size(str(<<".", "1">>)), At(str(<<"1">>), str(<<"1">>), str(<<"1">>))),
    Block(Shape(str(<<"d", "r", "u", "m", "_", "c", "u", "b", "e">>)), G4_blue, Size(str(<<"1", "e", "1">>)), At(str(<<"1">>), str(<<"1">>), str(<<"1">>))),
    Block(Shape(str(<<"p", "i", "a", "n", "o", "_", "p", "y", "r", "a", "m", "i", "d">>)), C4_red, Size(str(<<"2", ".">>)), At(str(<<"0">>), str(<<"0">>), str(<<"0">>))),
    Block(Shape(str(<<"p", "i", "a", "n", "o", "_", "p", "y", "r", "a", "m", "i", "d">>)), <<>>, Size(str(<<"2", ".", "0">>)), At(str(<<"0">>), str(<<"0">>), str(<<"0">>))),
    Block(Shape(str(<<"p", "i", "a", "n", "o", "_", "p", "y", "r", "a", "m", "i", "d">>)), Color(str(<<"r", "e", "d">>)), Size(str(<<"2", ".", "0">>)), <<>>),
    Block(Shape(str(<<"p", "i", "a", "n", "o", "_", "p", "y", "r", "a", "m", "i", "d">>)), C4_red, <<>>, At(str(<<"0">>), str(<<"0">>), str(<<"0">>))),
    Block(Shape(str(<<"p", "i", "a", "n", "o", "_", "s", "p", "h", "e", "r", "e", "_", "x">>)), C4_red, Size(str(<<"1", "_", "9">>)), At(str(<<"0">>), str(<<"0">>), str(<<"0">>))),
    Block(Shape(str(<<"p", "i", "a", "n", "o">>)), C4_red, Size(str(<<"+", "1", ".", "9">>)), At(str(<<"0">>), str(<<"0">>), str(<<"0">>))),
    Block(<<>>, C4_red, Size(str(<<"2", ".", "9">>)), At(str(<<"0">>), str(<<"0">>), str(<<"0">>))),
    Block(Shape(str(<<"d", "r", "u", "m", "_", "s", "p", "h", "e", "r", "e">>)), Color(str(<<"Z", "9", "_", "r", "e", "d">>)), Size(str(<<"a", "b", "c">>)),
          At(str(<<"0">>), str(<<"0">>), str(<<"0">>))),
    Block(Shape(str(<<"d", "r", "u", "m", "_", "s", "p", "h", "e", "r", "e">>)), C4_red, Size(str(<<"-", "1", ".", "5">>)), <<>>),
    Block(Shape(str(<<"d", "r", "u", "m", "_", "s", "p", "h", "e", "r", "e">>)), C4_red, Size(str(<<"i", "n", "f">>)), At(str(<<"0">>), str(<<"0">>), str(<<"0">>))),
    Block(Shape(str(<<"d", "r", "u", "m", "_", "c", "u", "b", "e">>)), G4_blue, Size(str(<<"N", "a", "N">>)), At(str(<<"0">>), str(<<"0">>), str(<<"0">>))) }

RECURSIVE Concat(_)
Concat(blocks) == IF blocks = <<>> THEN <<>> ELSE Head(blocks) \o Concat(Tail(blocks))

BuildFiles == { Concat(bs) : bs \in SeqsUpTo(BuildBlocks, MaxObjects) }

(* ------------------------------------------------------------- program *)

\* what output.mid holds: nothing, after open(..., "wb"); the document, after
\* writeFile
no_content == <<>>
content(doc) == <<doc>>

\* before main runs: nothing parsed, nothing built, nothing written
Start(files) ==
  /\ args \in [midi : BOOLEAN, vtk : BOOLEAN]
  /\ file \in files
  /\ pc = "main_midi"
  /\ err = None
  /\ lineno = 1
  /\ heap = <<>>
  /\ current_object = 0
  /\ objects = <<>>
  /\ obj_i = 1
  /\ midi = MIDIFile(0)
  /\ track_details = EmptyDict
  /\ current_track = 0
  /\ renderer = <<>>
  /\ output_mid = <<>>
  /\ rendered = FALSE

Init == Start(ParserFiles)
InitBlocks == Start(BlockFiles(MaxBlockLines))
InitBuild == Start(BuildFiles)

\* entry to load_objects_from_mvo: lines 15-17
EnterLoad ==
  /\ heap' = load_start.heap
  /\ current_object' = load_start.current_object
  /\ objects' = load_start.objects
  /\ lineno' = 1

\* main, lines 115-117: if args.midi, create_midi_from_mvo is entered
main_midi ==
  /\ pc = "main_midi" /\ err = None
  /\ IF args.midi
     THEN pc' = "midi_load" /\ EnterLoad
     ELSE pc' = "main_vtk" /\ UNCHANGED <<heap, current_object, objects, lineno>>
  /\ UNCHANGED <<args, file, err, obj_i, midi, track_details, current_track,
                 renderer, output_mid, rendered>>

\* one turn of the parser's loop, lines 18-32, in either builder
load_step ==
  /\ pc \in {"midi_load", "vtk_load"} /\ err = None
  /\ lineno <= Len(file)
  /\ LET st == load_line([heap |-> heap, current_object |-> current_object,
                          objects |-> objects, err |-> None], file[lineno])
     IN /\ heap' = st.heap
        /\ current_object' = st.current_object
        /\ objects' = st.objects
        /\ err' = st.err
  /\ lineno' = lineno + 1
  /\ UNCHANGED <<args, file, pc, obj_i, midi, track_details, current_track,
                 renderer, output_mid, rendered>>

\* the parser returns to create_midi_from_mvo: lines 33, 36-42
midi_init ==
  /\ pc = "midi_load" /\ err = None
  /\ lineno > Len(file)
  /\ LET m == midi_start(objects)
     IN /\ midi' = m.midi
        /\ track_details' = m.track_details
        /\ current_track' = m.current_track
  /\ obj_i' = 1
  /\ pc' = "midi_build"
  /\ UNCHANGED <<args, file, err, lineno, heap, current_object, objects,
                 renderer, output_mid, rendered>>

\* one turn of the score builder's loop, lines 43-58
midi_step ==
  /\ pc = "midi_build" /\ err = None
  /\ obj_i <= Len(objects)
  /\ LET m == midi_object([midi |-> midi, track_details |-> track_details,
                           current_track |-> current_track, err |-> None],
                          heap[objects[obj_i]])
     IN /\ midi' = m.midi
        /\ track_details' = m.track_details
        /\ current_track' = m.current_track
        /\ err' = m.err
  /\ obj_i' = obj_i + 1
  /\ UNCHANGED <<args, file, pc, lineno, heap, current_object, objects,
                 renderer, output_mid, rendered>>

\* line 60: open("output.mid", "wb") creates the file, or empties the one
\* that is there
midi_open ==
  /\ pc = "midi_build" /\ err = None
  /\ obj_i > Len(objects)
  /\ output_mid' = <<no_content>>
  /\ pc' = "midi_write"
  /\ UNCHANGED <<args, file, err, lineno, heap, current_object, objects,
                 obj_i, midi, track_details, current_track, renderer, rendered>>

\* line 61: midi.writeFile writes the document, the file is closed, and main
\* goes on
midi_writeFile ==
  /\ pc = "midi_write" /\ err = None
  /\ output_mid' = <<content(midi)>>
  /\ pc' = "main_vtk"
  /\ UNCHANGED <<args, file, err, lineno, heap, current_object, objects,
                 obj_i, midi, track_details, current_track, renderer, rendered>>

\* line 61: midi.writeFile raises; the file is closed as open has left it,
\* and the exception ends the run
midi_writeFile_raises ==
  /\ pc = "midi_write" /\ err = None
  /\ err' = "Exception"
  /\ UNCHANGED <<args, file, pc, lineno, heap, current_object, objects,
                 obj_i, midi, track_details, current_track, renderer,
                 output_mid, rendered>>

\* main, lines 119-121: if args.vtk, create_vtk_from_mvo is entered
main_vtk ==
  /\ pc = "main_vtk" /\ err = None
  /\ IF args.vtk
     THEN pc' = "vtk_load" /\ EnterLoad
     ELSE pc' = "exit" /\ UNCHANGED <<heap, current_object, objects, lineno>>
  /\ UNCHANGED <<args, file, err, obj_i, midi, track_details, current_track,
                 renderer, output_mid, rendered>>

\* the parser returns to create_vtk_from_mvo: lines 33, 68-73
vtk_init ==
  /\ pc = "vtk_load" /\ err = None
  /\ lineno > Len(file)
  /\ renderer' = <<>>
  /\ obj_i' = 1
  /\ pc' = "vtk_build"
  /\ UNCHANGED <<args, file, err, lineno, heap, current_object, objects,
                 midi, track_details, current_track, output_mid, rendered>>

\* one turn of the scene builder's loop, lines 75-100
vtk_step ==
  /\ pc = "vtk_build" /\ err = None
  /\ obj_i <= Len(objects)
  /\ LET r == vtk_object([actors |-> renderer, err |-> None], heap[objects[obj_i]])
     IN /\ renderer' = r.actors
        /\ err' = r.err
  /\ obj_i' = obj_i + 1
  /\ UNCHANGED <<args, file, pc, lineno, heap, current_object, objects,
                 midi, track_details, current_track, output_mid, rendered>>

\* line 102: render_window.Render() draws the scene
vtk_render ==
  /\ pc = "vtk_build" /\ err = None
  /\ obj_i > Len(objects)
  /\ rendered' = TRUE
  /\ pc' = "vtk_interact"
  /\ UNCHANGED <<args, file, err, lineno, heap, current_object, objects,
                 obj_i, midi, track_details, current_track, renderer, output_mid>>

\* lines 103-105: interactor.Start() holds the run until the window is closed;
\* then it returns, and so do create_vtk_from_mvo and main
vtk_interact ==
  /\ pc = "vtk_interact" /\ err = None
  /\ pc' = "exit"
  /\ UNCHANGED <<args, file, err, lineno, heap, current_object, objects,
                 obj_i, midi, track_details, current_track, renderer,
                 output_mid, rendered>>

Next ==
  \/ main_midi
  \/ load_step
  \/ midi_init
  \/ midi_step
  \/ midi_open
  \/ midi_writeFile
  \/ midi_writeFile_raises
  \/ main_vtk
  \/ vtk_init
  \/ vtk_step
  \/ vtk_render
  \/ vtk_interact

Spec == Init /\ [][Next]_vars
SpecBlocks == InitBlocks /\ [][Next]_vars
SpecBuild == InitBuild /\ [][Next]_vars

(* ------------------------------------------------------ the properties *)

Loading == pc \in {"midi_load", "vtk_load"}

\* output.mid exists and holds a document
Written == output_mid # <<>> /\ output_mid[1] # no_content

\* the document output.mid holds
Document == output_mid[1][1]

\* the parser has read the whole file and returns its list
Returned == Loading /\ lineno > Len(file) /\ err = None

\* the list the parser holds, as the dicts it names
Records == [i \in 1..Len(objects) |-> heap[objects[i]]]

IsBegin(l) == strip(l) = BEGIN_OBJECT
IsEnd(l) == strip(l) = END_OBJECT

\* the places, from i on, of the lines of f that are the marker, in increasing order
RECURSIVE Places(_, _, _)
Places(f, i, marker) ==
  IF i > Len(f) THEN <<>>
  ELSE (IF strip(f[i]) = marker THEN <<i>> ELSE <<>>) \o Places(f, i + 1, marker)

KeyOf(l) == split_1(strip(l), str(<<":", " ">>))[1]
ValueOf(l) == split_1(strip(l), str(<<":", " ">>))[2]

\* what a block's field lines say: each key with the value of its last line
FieldsOf(body) ==
  [k \in {KeyOf(body[j]) : j \in 1..Len(body)} |->
     LET last == CHOOSE j \in 1..Len(body) :
                   /\ KeyOf(body[j]) = k
                   /\ \A h \in (j + 1)..Len(body) : KeyOf(body[h]) # k
         v == ValueOf(body[last])
     IN IF k = POSITION THEN Tup(position_floats(v).t)
        ELSE IF k = SIZE_DURATION THEN Flt(float(v).f)
        ELSE Str(v)]

\* C1: for an input made of N well-formed begin_object ... end_object blocks, the
\* parser returns exactly N records, and the i-th record holds the fields of the
\* i-th block of the source.
C1_BlocksYieldRecords ==
  LET begins == Places(file, 1, BEGIN_OBJECT)
      ends == Places(file, 1, END_OBJECT)
  IN /\ Loading => err = None
     /\ Returned =>
          /\ Len(objects) = Len(begins)
          /\ \A i \in 1..Len(objects) :
               Records[i] = FieldsOf(SubSeq(file, begins[i] + 1, ends[i] - 1))

\* two blocks with different fields have been parsed into two different records
C1_Witness ==
  /\ Returned
  /\ Len(objects) = 2
  /\ DOMAIN Records[1] # DOMAIN Records[2]
  /\ POSITION \in DOMAIN Records[2]

\* line j of the file lies after a begin_object with no end_object in between
InsideBlock(j) ==
  \E b \in 1..(j - 1) :
    /\ IsBegin(file[b])
    /\ \A e \in (b + 1)..(j - 1) : ~IsEnd(file[e])

\* C4: a record exists only between begin_object and end_object: every field of
\* an emitted record comes from a line lying between a begin_object and the next
\* end_object, and no more records are emitted than begin_object lines were read
\* (an end_object with no begin_object before it emits nothing).
C4_RecordsOnlyBetweenMarkers ==
  Loading =>
    /\ Len(objects) <= Len(Places(SubSeq(file, 1, lineno - 1), 1, BEGIN_OBJECT))
    /\ \A i \in 1..Len(objects) : \A k \in DOMAIN Records[i] :
         \E j \in 1..(lineno - 1) :
           /\ InsideBlock(j)
           /\ find(file[j], str(<<":", " ">>)) # 0
           /\ KeyOf(file[j]) = k

\* C5: records are never mutated after parsing: a line read by the parser leaves
\* every record already in the result sequence as it was, and at its place.
C5_RecordsNeverMutated ==
  [][(Loading /\ pc' = pc) =>
       /\ Len(objects') >= Len(objects)
       /\ \A i \in 1..Len(objects) : heap'[objects'[i]] = heap[objects[i]]]_vars

\* C9: a line that is neither begin_object nor end_object and does not contain
\* ": " is ignored: it changes neither the accumulator nor the result sequence
\* and does not make the parse fail.
C9_LinesWithoutSeparatorIgnored ==
  [][(/\ Loading /\ err = None /\ lineno <= Len(file)
      /\ ~IsBegin(file[lineno]) /\ ~IsEnd(file[lineno])
      /\ find(file[lineno], str(<<":", " ">>)) = 0)
     => (err' = None /\ UNCHANGED <<heap, current_object, objects>>)]_vars

NoFlags == ~args.midi /\ ~args.vtk

\* C8: with neither flag the program performs parsing only: the parser still
\* runs on the file, so the run ends as the parse of the file ends (a malformed
\* position or size_duration value fails it), and no output.mid and no scene
\* is produced.
C8_ParsingOnly ==
  (NoFlags /\ pc = "exit") =>
    /\ err = load_objects_from_mvo(file).err
    /\ output_mid = <<>>
    /\ ~rendered

\* the records of the file, for a run whose parse does not fail
Parsed == records_of(load_objects_from_mvo(file))

InstrumentOf(rec) == split(rec[INSTRUMENT_SHAPE].s, str(<<"_">>))[1]

InstrumentsOf(recs) == {InstrumentOf(recs[i]) : i \in 1..Len(recs)}

FirstOf(recs, name) ==
  CHOOSE i \in 1..Len(recs) :
    /\ InstrumentOf(recs[i]) = name
    /\ \A j \in 1..(i - 1) : InstrumentOf(recs[j]) # name

\* the named tracks of doc are one per distinct instrument of recs, numbered from
\* 0 in the order in which the instruments first occur, each with its tempo
TracksByInstrument(doc, recs) ==
  /\ Len(doc.trackNames) = Cardinality(InstrumentsOf(recs))
  /\ {doc.trackNames[k].name : k \in 1..Len(doc.trackNames)} = InstrumentsOf(recs)
  /\ \A k \in 1..Len(doc.trackNames) :
       /\ doc.trackNames[k].track = k - 1
       /\ \A l \in (k + 1)..Len(doc.trackNames) :
            FirstOf(recs, doc.trackNames[k].name) < FirstOf(recs, doc.trackNames[l].name)
  /\ Len(doc.tempos) = Len(doc.trackNames)
  /\ \A k \in 1..Len(doc.tempos) :
       doc.tempos[k].track = k - 1 /\ doc.tempos[k].tempo = 120

\* doc has one note event per record of recs, on the track named after the
\* record's instrument
NotePerRecord(doc, recs) ==
  /\ Len(doc.notes) = Len(recs)
  /\ \A i \in 1..Len(doc.notes) :
       \E k \in 1..Len(doc.trackNames) :
         /\ doc.trackNames[k].name = InstrumentOf(recs[i])
         /\ doc.trackNames[k].track = doc.notes[i].track

\* C2 as stated: the document has as many tracks as there are distinct
\* instruments, created in first-encounter order, and one note event per
\* record, on the track of its record's instrument.
C2_TrackPerInstrument ==
  Written =>
    LET recs == Parsed
    IN /\ Document.numTracks = Cardinality(InstrumentsOf(recs))
       /\ TracksByInstrument(Document, recs)
       /\ NotePerRecord(Document, recs)

\* C2, amended: the document is allocated with one track per record; of these,
\* one per distinct instrument is named and given its tempo, in first-encounter
\* order; and there is one note event per record, on its instrument's track.
C2_TrackPerRecordAllocated ==
  Written =>
    LET recs == Parsed
    IN /\ Document.numTracks = Len(recs)
       /\ TracksByInstrument(Document, recs)
       /\ NotePerRecord(Document, recs)

\* two records of one instrument: the document, allocated with two tracks, has
\* one named track, which carries both notes
C2_Witness ==
  /\ Written
  /\ Document.numTracks = 2
  /\ Len(Document.trackNames) = 1
  /\ Len(Document.notes) = 2
  /\ Document.notes[1].track = 0
  /\ Document.notes[2].track = 0
  /\ Document.notes[1].pitch # Document.notes[2].pitch

\* the scene builder is about to map the record obj
Mapping(obj) ==
  /\ pc = "vtk_build" /\ err = None
  /\ obj_i <= Len(objects)
  /\ obj = heap[objects[obj_i]]

\* C3: a record whose shape token is neither "sphere" nor "cube" contributes no
\* solid and raises no failure, whatever its other fields are.
C3_UnknownShapeSkipped ==
  [][\A obj \in {heap[objects[i]] : i \in 1..Len(objects)} :
       (/\ Mapping(obj)
        /\ INSTRUMENT_SHAPE \in DOMAIN obj
        /\ Len(split(obj[INSTRUMENT_SHAPE].s, str(<<"_">>))) = 2
        /\ split(obj[INSTRUMENT_SHAPE].s, str(<<"_">>))[2] \notin {str(<<"s", "p", "h", "e", "r", "e">>), str(<<"c", "u", "b", "e">>)})
       => (err' = None /\ renderer' = renderer /\ obj_i' = obj_i + 1)]_vars

\* a < b, for two whole numbers of as many digits
RECURSIVE DigitsLess(_, _)
DigitsLess(a, b) ==
  IF a = <<>> THEN FALSE
  ELSE IF a[1] # b[1] THEN a[1] < b[1]
  ELSE DigitsLess(Tail(a), Tail(b))

\* a < b, for two whole numbers written without leading zeros
Less(a, b) == IF Len(a) # Len(b) THEN Len(a) < Len(b) ELSE DigitsLess(a, b)

\* the digits of the whole number a x 10^k
Shifted(a, k) == IF a = <<>> THEN <<>> ELSE a \o zeros(k)

\* n <= d < n + 1, for an int n >= 0 and a finite float d >= 0: both sides are
\* compared as whole numbers of units of 10^d.exp
IsFloorOf(n, d) ==
  LET k == IF d.exp < 0 THEN -d.exp ELSE 0
      units == Shifted(d.digits, d.exp)
  IN /\ ~n.neg
     /\ ~Less(units, Shifted(n.digits, k))
     /\ Less(units, Shifted(plus_one(n.digits), k))

\* C6: the note's duration is floor(d) for a record's size_duration d >= 0, and
\* the solid's size is d itself.
C6_TruncationLaw ==
  [][/\ (pc = "midi_build" /\ Len(midi'.notes) = Len(midi.notes) + 1) =>
          LET d == heap[objects[obj_i]][SIZE_DURATION].f
              n == midi'.notes[Len(midi'.notes)]
          IN (d.cls = "finite" /\ ~d.neg) => IsFloorOf(n.duration, d)
     /\ (pc = "vtk_build" /\ Len(renderer') = Len(renderer) + 1) =>
          renderer'[Len(renderer')].size = heap[objects[obj_i]][SIZE_DURATION].f]_vars

\* a record of size_duration 2.9 has given a note of duration 2 and a solid of
\* size 2.9, and one of size_duration 0.1 a note of duration 0
C6_Witness ==
  /\ pc = "vtk_build"
  /\ Written
  /\ Len(objects) >= 2
  /\ Records[1][SIZE_DURATION].f = float(str(<<"2", ".", "9">>)).f
  /\ Records[2][SIZE_DURATION].f = float(str(<<".", "1">>)).f
  /\ Document.notes[1].duration = PyInt(FALSE, <<2>>)
  /\ Document.notes[2].duration = PyInt(FALSE, <<>>)
  /\ Len(renderer) = 2
  /\ renderer[1].size = Records[1][SIZE_DURATION].f
  /\ renderer[2].size = Records[2][SIZE_DURATION].f

Recognized == {str(<<"s", "p", "h", "e", "r", "e">>), str(<<"c", "u", "b", "e">>)}

\* C7: the shape is the whole of the token after its first underscore, so a
\* record whose remainder is not a recognized shape gives no solid; and a token
\* with no underscore leaves the shape or color unresolved, which is no failure.
C7_SplitOnFirstUnderscore ==
  [][\A obj \in {heap[objects[i]] : i \in 1..Len(objects)} :
       (Mapping(obj) /\ INSTRUMENT_SHAPE \in DOMAIN obj) =>
         LET parts == split_1(obj[INSTRUMENT_SHAPE].s, str(<<"_">>))
         IN /\ (Len(parts) = 2 /\ parts[2] \notin Recognized) => renderer' = renderer
            /\ Len(parts) = 1 => (err' # "IndexError" /\ renderer' = renderer)]_vars

\* C10: output.mid is written only after the parse has finished and every
\* record has been mapped; a run that fails in the parse or in the mapping
\* leaves no output.mid, whatever was mapped before the failure.  (Until the
\* loop has ended the file is not even opened; once it exists, it is empty only
\* while the writer has it, and what it holds then is the whole document.)
C10_AllOrNothing ==
  /\ pc \in {"main_midi", "midi_load", "midi_build"} => output_mid = <<>>
  /\ output_mid # <<>> =>
       LET st == load_objects_from_mvo(file)
           recs == records_of(st)
       IN /\ st.err = None
          /\ \A i \in 1..Len(recs) :
               /\ {INSTRUMENT_SHAPE, NOTE_COLOR, SIZE_DURATION} \subseteq DOMAIN recs[i]
               /\ recs[i][SIZE_DURATION].f.cls = "finite"
          /\ Len(midi.notes) = Len(recs)
          /\ IF Written THEN Document = midi ELSE pc = "midi_write"

\* the mapping has failed on a record after a note was emitted for an earlier
\* one, and nothing has been written
C10_Witness ==
  /\ pc = "midi_build"
  /\ err = "KeyError"
  /\ Len(midi.notes) >= 1
  /\ output_mid = <<>>

====
